---- MODULE Spec2Model ----
(***************************************************************************)
(* Document content adapter of dip-studio                                  *)
(* (studio/backend/src/adapters/document_content_adapter.py):              *)
(*   - the TipTap normalizer _ensure_tiptap_content,                       *)
(*   - the JSON Patch application it feeds (jsonpatch.apply_patch),        *)
(*   - the MariaDB-backed get/set/patch/delete of DocumentContentAdapter,  *)
(*   - the same normalizer on a heap of dict and list objects (copies and  *)
(*     sharing),                                                           *)
(* and its authentication middleware                                       *)
(* (studio/backend/src/infrastructure/middleware/auth_middleware.py with   *)
(* infrastructure/context/token_context.py).                               *)
(*                                                                         *)
(* Specifications: Spec (the store under two tasks), NormSpec (normalizer  *)
(* runs), PatchSpec (positional patches of one stored tree), HeapSpec      *)
(* (normalizer runs on the heap), AuthSpec (requests through dispatch).    *)
(*                                                                         *)
(* JSON values are tagged records [k, v]:                                  *)
(*   null  [k |-> "null", v |-> <<>>]      None                            *)
(*   str   [k |-> "str",  v |-> "text"]    str                             *)
(*   list  [k |-> "list", v |-> <<...>>]   list                            *)
(*   obj   [k |-> "obj",  v |-> f]         dict, f a function on its keys  *)
(* Trees range over the documented shapes: a node's `type`, when present,  *)
(* is a string or null (hashable); `content` may be anything.              *)
(***************************************************************************)
EXTENDS Integers, Sequences, FiniteSets, TLC

VARIABLES
    tree,       \* normalizer run: the input tree t
    norm1,      \* normalizer run: _ensure_tiptap_content(t), or NotRun
    norm2,      \* normalizer run: _ensure_tiptap_content(norm1), or NotRun
    store,      \* document_content table: document_id -> content column (JSON text) or NoRow
    iso,        \* per-id replay: iso[d] is driven only by the operations on d
    calls,      \* patch_content calls in flight, one slot per task
    last,       \* the operation that completed last and what it saw
    lastWrite,  \* per id, the last completed write (set / patch / delete)
    nCalls,     \* number of operations started
    heap,       \* heap run: the cells, by address
    hT,         \* heap run: the argument t of _ensure_tiptap_content
    hRes,       \* heap run: what _ensure_tiptap_content(t) returned, or NotRun
    hRes2,      \* heap run: what a later _ensure_tiptap_content(t) returned, or NotRun
    nMut,       \* heap run: mutations made to the result
    authPc,         \* dispatch: where the request being dispatched stands
    dispatch,       \* dispatch: the request dispatched last and what became of it
    tokenContext,   \* _auth_token_context in the context dispatch runs in
    userContext,    \* _user_info_context in the context dispatch runs in
    requestState,   \* request.state of the request dispatched last
    nRequests       \* requests dispatched

vars == <<tree, norm1, norm2, store, iso, calls, last, lastWrite, nCalls,
          heap, hT, hRes, hRes2, nMut,
          authPc, dispatch, tokenContext, userContext, requestState, nRequests>>
normVars == <<tree, norm1, norm2>>
storeVars == <<store, iso, calls, last, lastWrite, nCalls>>
heapVars == <<heap, hT, hRes, hRes2, nMut>>
authVars == <<authPc, dispatch, tokenContext, userContext, requestState, nRequests>>

----------------------------------------------------------------------------
(* Bounds *)

MaxDepth == 2      \* nesting of content lists above the innermost node
MaxCalls == 3      \* operations started in one run of the store
MaxMutations == 2  \* mutations made to a result of the normalizer
MaxRequests == 2   \* requests dispatched one after the other in one context

----------------------------------------------------------------------------
(* JSON values *)

JNull == [k |-> "null", v |-> <<>>]
JStr(s) == [k |-> "str", v |-> s]
JList(s) == [k |-> "list", v |-> s]
JObj(f) == [k |-> "obj", v |-> f]

EmptyMap == [key \in {} |-> JNull]
EmptyObj == JObj(EmptyMap)

IsObj(x) == x.k = "obj"
IsList(x) == x.k = "list"
Has(x, key) == IsObj(x) /\ key \in DOMAIN x.v

\* dict item assignment d[key] = val
Put(x, key, val) ==
    JObj([kk \in DOMAIN x.v \cup {key} |-> IF kk = key THEN val ELSE x.v[kk]])

\* del d[key]
Del(x, key) == JObj([kk \in DOMAIN x.v \ {key} |-> x.v[kk]])

\* Python truthiness of a JSON value
Truthy(x) ==
    CASE x.k = "null" -> FALSE
      [] x.k = "str" -> x.v # ""
      [] x.k = "list" -> x.v # <<>>
      [] x.k = "obj" -> DOMAIN x.v # {}
      [] OTHER -> TRUE

----------------------------------------------------------------------------
(* _ensure_tiptap_content *)

TIPTAP_NODES_WITH_CONTENT ==
    { JStr("doc"), JStr("paragraph"), JStr("heading"), JStr("bulletList"),
      JStr("orderedList"), JStr("listItem"), JStr("blockquote"),
      JStr("codeBlock"), JStr("codeBlockLeaf") }

INLINE_DEFAULT_CONTENT ==
    JList(<< JObj([key \in {"type", "text"} |->
                    IF key = "type" THEN JStr("text") ELSE JStr("")]) >>)

\* node_type = out.get("type") or ""
NodeType(out) ==
    IF Has(out, "type") /\ Truthy(out.v["type"]) THEN out.v["type"] ELSE JStr("")

\* variant: only paragraph and heading are completed
LacksContentInlineOnly(out) ==
    NodeType(out) \in {JStr("paragraph"), JStr("heading")} /\ ~Has(out, "content")

\* variant: the test for an existing content member is dropped
LacksContentAlways(out) ==
    NodeType(out) \in TIPTAP_NODES_WITH_CONTENT

\* node_type in _TIPTAP_NODES_WITH_CONTENT and "content" not in out
LacksContent(out) ==
    NodeType(out) \in TIPTAP_NODES_WITH_CONTENT /\ ~Has(out, "content")

\* variant: every container gets the empty sequence
DefaultContentEmpty(node_type) == JList(<<>>)

\* the value given to a missing content member
DefaultContent(node_type) ==
    IF node_type \in {JStr("paragraph"), JStr("heading")}
    THEN INLINE_DEFAULT_CONTENT
    ELSE JList(<<>>)

\* variant: a paragraph or heading is always given a leading default leaf
WithContentLeading(out) ==
    IF NodeType(out) \in {JStr("paragraph"), JStr("heading")}
    THEN Put(out, "content",
             JList(INLINE_DEFAULT_CONTENT.v \o
                   (IF Has(out, "content") /\ IsList(out.v["content"])
                    THEN out.v["content"].v ELSE <<>>)))
    ELSE IF LacksContent(out)
    THEN Put(out, "content", JList(<<>>))
    ELSE out

\* lines 38-44: the node with its content member synthesized when it lacks one
WithContent(out) ==
    IF LacksContent(out)
    THEN Put(out, "content", DefaultContent(NodeType(out)))
    ELSE out

\* variant: the children are not visited
EnsureTopOnly(doc) ==
    IF doc = JNull THEN JNull
    ELSE IF ~IsObj(doc) THEN doc
    ELSE WithContent(doc)

RECURSIVE EnsureTiptapContent(_)
EnsureTiptapContent(doc) ==
    LET Children(out) ==
            IF Has(out, "content") /\ IsList(out.v["content"])
            THEN Put(out, "content",
                     JList([i \in DOMAIN out.v["content"].v |->
                               EnsureTiptapContent(out.v["content"].v[i])]))
            ELSE out
    IN IF doc = JNull THEN JNull
       ELSE IF ~IsObj(doc) THEN doc
       ELSE Children(WithContent(doc))

----------------------------------------------------------------------------
(* Input trees *)

NotRun == [k |-> "notrun", v |-> <<>>]
Missing == [k |-> "missing", v |-> <<>>]

\* `type` members of the input trees; Missing stands for "no type member"
SeedTypes ==
    { Missing, JNull, JStr(""), JStr("doc"), JStr("paragraph"), JStr("heading"),
      JStr("bulletList"), JStr("text"), JStr("image") }
WrapTypes == { Missing, JStr("doc"), JStr("paragraph"), JStr("bulletList"), JStr("image") }

BareParagraph == JObj("type" :> JStr("paragraph"))

\* `content` members of the innermost nodes; Missing stands for "no content member"
SeedContents == { Missing, JNull, JStr("x"), JList(<<>>), BareParagraph }

\* opaque attributes: none, or an attrs object that itself looks like a node
SeedAttrs == { Missing, BareParagraph }

Node(type, content, attrs) ==
    JObj([key \in  (IF type = Missing THEN {} ELSE {"type"})
              \cup (IF content = Missing THEN {} ELSE {"content"})
              \cup (IF attrs = Missing THEN {} ELSE {"attrs"}) |->
            CASE key = "type" -> type
              [] key = "content" -> content
              [] OTHER -> attrs])

Seeds ==
    { JNull, JStr("x"), JList(<<BareParagraph>>) }
    \cup { Node(ty, c, a) : ty \in SeedTypes, c \in SeedContents, a \in SeedAttrs }

\* the children lists a wrapping node may hold around the tree built so far
WrapShapes(t) == { <<t>>, <<t, BareParagraph>>, <<JStr("x"), t>> }

RECURSIVE ContentDepth(_)
ContentDepth(x) ==
    IF Has(x, "content") /\ IsList(x.v["content"]) /\ x.v["content"].v # <<>>
    THEN LET kids == x.v["content"].v
             ds == { ContentDepth(kids[i]) : i \in DOMAIN kids }
         IN 1 + CHOOSE d \in ds : \A e \in ds : e <= d
    ELSE 0

----------------------------------------------------------------------------
(* _ensure_tiptap_content on the heap: dict and list objects are cells with an
   address, a member or item is an immutable value (None, a str) or a
   reference to a cell.  The trees given to the function are trees: no cell
   is referenced twice. *)

Ref(a) == [k |-> "ref", v |-> a]
IsRef(x) == x.k = "ref"
IsObjRef(h, x) == IsRef(x) /\ h[x.v].k = "obj"
IsListRef(h, x) == IsRef(x) /\ h[x.v].k = "list"

\* what a call on the heap gives: the heap after it and the value returned
HRet(h, val) == [h |-> h, val |-> val]

\* a new cell at the next free address
HNew(h, cell) == HRet(Append(h, cell), Ref(Len(h) + 1))

\* the tree x built out of new cells
RECURSIVE HStore(_, _), HStoreItems(_, _, _, _), HStoreMembers(_, _, _, _)
HStore(h, x) ==
    CASE x.k = "list" -> HStoreItems(h, x.v, 1, <<>>)
      [] x.k = "obj" -> HStoreMembers(h, x.v, DOMAIN x.v, EmptyMap)
      [] OTHER -> HRet(h, x)
HStoreItems(h, items, i, acc) ==
    LET Then(r) == HStoreItems(r.h, items, i + 1, Append(acc, r.val))
    IN IF i > Len(items) THEN HNew(h, JList(acc)) ELSE Then(HStore(h, items[i]))
HStoreMembers(h, f, keys, acc) ==
    LET Then(key, r) == HStoreMembers(r.h, f, keys \ {key}, Put(JObj(acc), key, r.val).v)
        With(key) == Then(key, HStore(h, f[key]))
    IN IF keys = {} THEN HNew(h, JObj(acc)) ELSE With(CHOOSE kk \in keys : TRUE)

\* the tree a value stands for
RECURSIVE HValue(_, _)
HValue(h, x) ==
    IF ~IsRef(x) THEN x
    ELSE [k |-> h[x.v].k,
          v |-> [i \in DOMAIN h[x.v].v |-> HValue(h, h[x.v].v[i])]]

\* the cells reachable from a value
RECURSIVE HReach(_, _)
HReach(h, x) ==
    IF ~IsRef(x) THEN {}
    ELSE {x.v} \cup UNION { HReach(h, h[x.v].v[i]) : i \in DOMAIN h[x.v].v }

\* variant: no copy is made, the object itself is used
DeepCopyNone(h, x) == HRet(h, x)

\* copy.deepcopy(x): the same tree out of new cells
DeepCopy(h, x) == HStore(h, HValue(h, x))

\* the module's heap: _INLINE_DEFAULT_CONTENT, built when the module is loaded
ModuleHeap == HStore(<<>>, INLINE_DEFAULT_CONTENT)
DefaultRef == ModuleHeap.val

\* d[key] = val on the cell at address a
HSetKey(h, a, key, val) == [h EXCEPT ![a] = Put(h[a], key, val)]

\* lines 41-44: copy.deepcopy(_INLINE_DEFAULT_CONTENT), or a new []
HDefaultContent(h, node_type) ==
    IF node_type \in {JStr("paragraph"), JStr("heading")}
    THEN DeepCopy(h, DefaultRef)
    ELSE HNew(h, JList(<<>>))

RECURSIVE HEnsure(_, _), HEnsureItems(_, _, _, _)
\* [_ensure_tiptap_content(c) for c in out["content"]]
HEnsureItems(h, items, i, acc) ==
    LET Then(r) == HEnsureItems(r.h, items, i + 1, Append(acc, r.val))
    IN IF i > Len(items) THEN HRet(h, acc) ELSE Then(HEnsure(h, items[i]))

\* _ensure_tiptap_content(doc), lines 31-47
HEnsure(h, doc) ==
    LET Assign(out, r) ==
            HRet(HSetKey(HNew(r.h, JList(r.val)).h, out, "content",
                         HNew(r.h, JList(r.val)).val),
                 Ref(out))
        Children(hh, out) ==
            IF "content" \in DOMAIN hh[out].v /\ IsListRef(hh, hh[out].v["content"])
            THEN Assign(out, HEnsureItems(hh, hh[hh[out].v["content"].v].v, 1, <<>>))
            ELSE HRet(hh, Ref(out))
        Given(out, r) == Children(HSetKey(r.h, out, "content", r.val), out)
        Fill(hh, out) ==
            IF LacksContent(hh[out])
            THEN Given(out, HDefaultContent(hh, NodeType(hh[out])))
            ELSE Children(hh, out)
        Copied(r) == Fill(r.h, r.val.v)
    IN IF doc = JNull THEN HRet(h, JNull)
       ELSE IF ~IsObjRef(h, doc) THEN HRet(h, doc)
       ELSE Copied(DeepCopy(h, doc))

----------------------------------------------------------------------------
(* jsonpatch.apply_patch(current, patch_operations): RFC 6902 operations
   addressed by JSON pointers, as the jsonpatch / jsonpointer libraries
   evaluate them.  A pointer is the sequence of its reference tokens
   ("/content/0/text" is <<"content", "0", "text">>). *)

\* EndOfList(doc), what walking to "-" in a list yields
EndOfList == [k |-> "eol", v |-> <<>>]

\* int(part) for the reference tokens matching the array-index pattern
ArrayIndex == [s \in {"0", "1", "2", "3", "4", "5"} |->
                 CASE s = "0" -> 0 [] s = "1" -> 1 [] s = "2" -> 2
                   [] s = "3" -> 3 [] s = "4" -> 4 [] OTHER -> 5]

\* the characters of a str (a str is a Sequence to jsonpointer)
Chars(s) ==
    CASE s = "" -> <<>>
      [] s = "hi" -> <<"h", "i">>
      [] s = "yo" -> <<"y", "o">>
      [] s = "doc" -> <<"d", "o", "c">>
      [] s = "text" -> <<"t", "e", "x", "t">>
      [] s = "wrong" -> <<"w", "r", "o", "n", "g">>
      [] s = "image" -> <<"i", "m", "a", "g", "e">>
      [] s = "heading" -> <<"h", "e", "a", "d", "i", "n", "g">>
      [] s = "paragraph" -> <<"p", "a", "r", "a", "g", "r", "a", "p", "h">>
      [] OTHER -> <<s>>

IsSequence(x) == x.k \in {"list", "str"}
SeqLen(x) == IF x.k = "list" THEN Len(x.v) ELSE Len(Chars(x.v))
SeqAt(x, n) == IF x.k = "list" THEN x.v[n + 1] ELSE JStr(Chars(x.v)[n + 1])

Ok(val) == [ok |-> TRUE, val |-> val, exc |-> "", at |-> 0]
Raise(exc) == [ok |-> FALSE, val |-> JNull, exc |-> exc, at |-> 0]

\* parts of a pointer as get_part returns them
NoPart == [t |-> "none", s |-> "", n |-> 0]
KeyPart(s) == [t |-> "key", s |-> s, n |-> 0]
DashPart == [t |-> "dash", s |-> "-", n |-> 0]
IntPart(s) == [t |-> "int", s |-> s, n |-> ArrayIndex[s]]

\* JsonPointer.get_part(doc, part)
GetPart(doc, seg) ==
    IF IsObj(doc) THEN Ok(KeyPart(seg))
    ELSE IF IsSequence(doc)
    THEN IF seg = "-" THEN Ok(DashPart)
         ELSE IF seg \notin DOMAIN ArrayIndex THEN Raise("JsonPointerException")
         ELSE Ok(IntPart(seg))
    ELSE Raise("JsonPointerException")

\* JsonPointer.walk(doc, part)
Walk(doc, seg) ==
    LET Step(gp) ==
            IF ~gp.ok THEN gp
            ELSE IF IsSequence(doc)
            THEN IF gp.val.t = "dash" THEN Ok(EndOfList)
                 ELSE IF gp.val.n < SeqLen(doc) THEN Ok(SeqAt(doc, gp.val.n))
                 ELSE Raise("JsonPointerException")
            ELSE IF seg \in DOMAIN doc.v THEN Ok(doc.v[seg])
            ELSE Raise("JsonPointerException")
    IN Step(GetPart(doc, seg))

\* JsonPointer.resolve without default: walk every part
RECURSIVE WalkAll(_, _)
WalkAll(doc, path) ==
    LET Rest(w) == IF ~w.ok THEN w ELSE WalkAll(w.val, Tail(path))
    IN IF path = <<>> THEN Ok(doc) ELSE Rest(Walk(doc, Head(path)))

Front(path) == SubSeq(path, 1, Len(path) - 1)
LastOf(path) == path[Len(path)]

\* JsonPointer.to_last(doc): [ok, val |-> [sub, part], exc]
ToLast(doc, path) ==
    LET Part(sub, gp) == IF ~gp.ok THEN gp ELSE Ok([sub |-> sub, part |-> gp.val])
        Sub(w) == IF ~w.ok THEN w ELSE Part(w.val, GetPart(w.val, LastOf(path)))
    IN IF path = <<>> THEN Ok([sub |-> doc, part |-> NoPart])
       ELSE Sub(WalkAll(doc, Front(path)))

\* the document with the container at `path` replaced by `sub`: the effect, on
\* the document, of mutating in place the container that to_last returned
RECURSIVE SetAt(_, _, _)
SetAt(doc, path, sub) ==
    IF path = <<>> THEN sub
    ELSE IF IsObj(doc)
    THEN Put(doc, Head(path), SetAt(doc.v[Head(path)], Tail(path), sub))
    ELSE LET n == ArrayIndex[Head(path)] + 1 IN
         JList([i \in DOMAIN doc.v |->
                  IF i = n THEN SetAt(doc.v[i], Tail(path), sub) ELSE doc.v[i]])

\* list.insert(n, val) and del list[n], n counted from 0
InsertAt(s, n, val) == SubSeq(s, 1, n) \o <<val>> \o SubSeq(s, n + 1, Len(s))
RemoveAt(s, n) == SubSeq(s, 1, n) \o SubSeq(s, n + 2, Len(s))

\* AddOperation.apply
AddOperation(obj, path, value) ==
    LET In(sub, part) ==
            IF IsList(sub)
            THEN IF part.t = "dash"
                 THEN Ok(SetAt(obj, Front(path), JList(Append(sub.v, value))))
                 ELSE IF part.t = "none" THEN Raise("TypeError")
                 ELSE IF part.n > Len(sub.v) THEN Raise("JsonPatchConflict")
                 ELSE Ok(SetAt(obj, Front(path), JList(InsertAt(sub.v, part.n, value))))
            ELSE IF IsObj(sub)
            THEN IF part.t = "none" THEN Ok(value)
                 ELSE Ok(SetAt(obj, Front(path), Put(sub, part.s, value)))
            ELSE IF part.t = "none" THEN Raise("TypeError")
            ELSE Raise("JsonPatchConflict")
        At(tl) == IF ~tl.ok THEN tl ELSE In(tl.val.sub, tl.val.part)
    IN At(ToLast(obj, path))

\* RemoveOperation.apply
RemoveOperation(obj, path) ==
    LET In(sub, part) ==
            IF IsSequence(sub) /\ part.t # "int" THEN Raise("JsonPointerException")
            ELSE IF IsList(sub)
            THEN IF part.n < Len(sub.v)
                 THEN Ok(SetAt(obj, Front(path), JList(RemoveAt(sub.v, part.n))))
                 ELSE Raise("JsonPatchConflict")
            ELSE IF IsObj(sub)
            THEN IF part.t = "key" /\ part.s \in DOMAIN sub.v
                 THEN Ok(SetAt(obj, Front(path), Del(sub, part.s)))
                 ELSE Raise("JsonPatchConflict")
            ELSE Raise("TypeError")
        At(tl) == IF ~tl.ok THEN tl ELSE In(tl.val.sub, tl.val.part)
    IN At(ToLast(obj, path))

\* ReplaceOperation.apply
ReplaceOperation(obj, path, value) ==
    LET In(sub, part) ==
            IF part.t = "none" THEN Ok(value)
            ELSE IF part.s = "-" THEN Raise("InvalidJsonPatch")
            ELSE IF IsList(sub)
            THEN IF part.n >= Len(sub.v) THEN Raise("JsonPatchConflict")
                 ELSE Ok(SetAt(obj, Front(path),
                               JList([i \in DOMAIN sub.v |->
                                        IF i = part.n + 1 THEN value ELSE sub.v[i]])))
            ELSE IF IsObj(sub)
            THEN IF part.s \notin DOMAIN sub.v THEN Raise("JsonPatchConflict")
                 ELSE Ok(SetAt(obj, Front(path), Put(sub, part.s, value)))
            ELSE Raise("JsonPatchConflict")
        At(tl) == IF ~tl.ok THEN tl ELSE In(tl.val.sub, tl.val.part)
    IN At(ToLast(obj, path))

\* TestOperation.apply
TestOperation(obj, path, value) ==
    LET Compare(w) ==
            IF ~w.ok THEN Raise("JsonPatchTestFailed")
            ELSE IF w.val # value THEN Raise("JsonPatchTestFailed")
            ELSE Ok(obj)
    IN Compare(WalkAll(obj, path))

\* value = subobj[part] of MoveOperation.apply and CopyOperation.apply
FromValue(obj, from) ==
    LET In(sub, part) ==
            IF IsSequence(sub)
            THEN IF part.t # "int" THEN Raise("TypeError")
                 ELSE IF part.n < SeqLen(sub) THEN Ok(SeqAt(sub, part.n))
                 ELSE Raise("JsonPatchConflict")
            ELSE IF IsObj(sub)
            THEN IF part.t = "key" /\ part.s \in DOMAIN sub.v THEN Ok(sub.v[part.s])
                 ELSE Raise("JsonPatchConflict")
            ELSE Raise("TypeError")
        At(tl) == IF ~tl.ok THEN tl ELSE In(tl.val.sub, tl.val.part)
    IN At(ToLast(obj, from))

\* JsonPointer.contains: self.parts[:len(ptr.parts)] == ptr.parts
Contains(path, ptr) ==
    Len(ptr) <= Len(path) /\ SubSeq(path, 1, Len(ptr)) = ptr

\* MoveOperation.apply
MoveOperation(obj, from, path) ==
    LET Put2(rm, value) == IF ~rm.ok THEN rm ELSE AddOperation(rm.val, path, value)
        Go(fv) ==
            IF ~fv.ok THEN fv
            ELSE IF path = from THEN Ok(obj)
            ELSE IF IsObj(ToLast(obj, from).val.sub) /\ Contains(path, from)
            THEN Raise("JsonPatchConflict")
            ELSE Put2(RemoveOperation(obj, from), fv.val)
    IN Go(FromValue(obj, from))

\* CopyOperation.apply
CopyOperation(obj, from, path) ==
    LET Go(fv) == IF ~fv.ok THEN fv ELSE AddOperation(obj, path, fv.val)
    IN Go(FromValue(obj, from))

\* a patch operation as the caller gives it
Op(op, path, value) == [op |-> op, path |-> path, from |-> <<>>, value |-> value]
OpFrom(op, from, path) == [op |-> op, path |-> path, from |-> from, value |-> JNull]

OperationNames == {"add", "remove", "replace", "test", "move", "copy"}

\* PatchOperation.apply of the operation's class
ApplyOperation(obj, o) ==
    CASE o.op = "add" -> AddOperation(obj, o.path, o.value)
      [] o.op = "remove" -> RemoveOperation(obj, o.path)
      [] o.op = "replace" -> ReplaceOperation(obj, o.path, o.value)
      [] o.op = "test" -> TestOperation(obj, o.path, o.value)
      [] o.op = "move" -> MoveOperation(obj, o.from, o.path)
      [] o.op = "copy" -> CopyOperation(obj, o.from, o.path)
      [] OTHER -> Raise("InvalidJsonPatch")

\* JsonPatch.apply on a deep copy: the operations in order, the first failure
\* ends the run; `at` is the index of the operation that failed
RECURSIVE ApplyFrom(_, _, _)
ApplyFrom(obj, ops, i) ==
    LET Then(r) == IF ~r.ok THEN [r EXCEPT !.at = i] ELSE ApplyFrom(r.val, ops, i + 1)
    IN IF i > Len(ops) THEN Ok(obj) ELSE Then(ApplyOperation(obj, ops[i]))

\* jsonpatch.apply_patch(doc, patch): JsonPatch(patch) rejects an unknown
\* operation name before anything is applied
ApplyPatch(doc, ops) ==
    IF \E i \in DOMAIN ops : ops[i].op \notin OperationNames
    THEN [Raise("InvalidJsonPatch") EXCEPT
            !.at = CHOOSE i \in DOMAIN ops :
                      /\ ops[i].op \notin OperationNames
                      /\ \A j \in DOMAIN ops : ops[j].op \notin OperationNames => i <= j]
    ELSE ApplyFrom(doc, ops, 1)

----------------------------------------------------------------------------
(* The content column: json.dumps on the way in, json.loads on the way out.
   The text is a sequence of tokens. *)

Tok(t, s) == [t |-> t, s |-> s]

RECURSIVE Dumps(_), DumpItems(_, _), DumpMembers(_, _)
\* json.dumps(payload, ensure_ascii=False)
Dumps(x) ==
    CASE x.k = "null" -> <<Tok("null", "")>>
      [] x.k = "str" -> <<Tok("str", x.v)>>
      [] x.k = "list" -> <<Tok("[", "")>> \o DumpItems(x.v, 1) \o <<Tok("]", "")>>
      [] OTHER -> <<Tok("{", "")>> \o DumpMembers(x.v, DOMAIN x.v) \o <<Tok("}", "")>>
DumpItems(items, i) ==
    IF i > Len(items) THEN <<>> ELSE Dumps(items[i]) \o DumpItems(items, i + 1)
DumpMembers(f, keys) ==
    IF keys = {} THEN <<>>
    ELSE LET key == CHOOSE kk \in keys : TRUE IN
         <<Tok("key", key)>> \o Dumps(f[key]) \o DumpMembers(f, keys \ {key})

RECURSIVE ParseValue(_, _), ParseItems(_, _, _), ParseMembers(_, _, _)
\* the value starting at token i and the position after it
ParseValue(text, i) ==
    CASE text[i].t = "null" -> [val |-> JNull, next |-> i + 1]
      [] text[i].t = "str" -> [val |-> JStr(text[i].s), next |-> i + 1]
      [] text[i].t = "[" -> ParseItems(text, i + 1, <<>>)
      [] OTHER -> ParseMembers(text, i + 1, EmptyMap)
ParseItems(text, i, acc) ==
    IF text[i].t = "]" THEN [val |-> JList(acc), next |-> i + 1]
    ELSE LET r == ParseValue(text, i) IN ParseItems(text, r.next, Append(acc, r.val))
ParseMembers(text, i, acc) ==
    IF text[i].t = "}" THEN [val |-> JObj(acc), next |-> i + 1]
    ELSE LET r == ParseValue(text, i + 1) IN
         ParseMembers(text, r.next, Put(JObj(acc), text[i].s, r.val).v)

\* json.loads(raw)
Loads(text) == ParseValue(text, 1).val

----------------------------------------------------------------------------
(* DocumentContentAdapter over the document_content table *)

DocIds == {1, 2}
Tasks == {"t1", "t2"}

NoRow == [row |-> FALSE, content |-> <<>>]
Row(content_json) == [row |-> TRUE, content |-> content_json]

\* variant: a missing row is reported as None
GetContentNone(r) ==
    IF ~r.row THEN JNull
    ELSE IF r.content # <<>> THEN Loads(r.content) ELSE EmptyObj

\* get_content: {} when there is no row or the column is empty; the column
\* holds the text set_content wrote (a driver that decodes it gives the same tree)
GetContent(r) ==
    IF ~r.row THEN EmptyObj
    ELSE IF r.content # <<>> THEN Loads(r.content) ELSE EmptyObj

\* set_content: payload and its JSON text
ContentJson(content) == Dumps(IF content # JNull THEN content ELSE EmptyObj)

\* variant: INSERT IGNORE, an existing row is kept
UpsertIgnore(table, d, content_json) ==
    IF table[d].row THEN table ELSE [table EXCEPT ![d] = Row(content_json)]

\* INSERT ... ON DUPLICATE KEY UPDATE content = VALUES(content)
Upsert(table, d, content_json) == [table EXCEPT ![d] = Row(content_json)]

\* variant: DELETE without its WHERE clause
DeleteAllRows(table, d) == [x \in DOMAIN table |-> NoRow]

\* DELETE FROM document_content WHERE document_id = %s
DeleteRow(table, d) == [table EXCEPT ![d] = NoRow]

\* the exceptions deriving from jsonpatch.JsonPatchException
JsonPatchExceptions == {"JsonPatchConflict", "JsonPatchTestFailed", "InvalidJsonPatch"}

\* what a call gives its caller: a value returned, or an exception raised
\* (exc) with the exception it was raised from (cause)
Returned(val) == [ok |-> TRUE, val |-> val, exc |-> "", cause |-> "", at |-> 0]
Raised(exc, cause, at) == [ok |-> FALSE, val |-> JNull, exc |-> exc, cause |-> cause, at |-> at]

\* variant: the stored tree is patched as it is
PreparedRaw(current) == IF Truthy(current) THEN current ELSE EmptyObj

\* line 101: current = _ensure_tiptap_content(current) if current else {}
Prepared(current) ==
    IF Truthy(current) THEN EnsureTiptapContent(current) ELSE EmptyObj

\* variant: a failed application is swallowed and the normalized tree kept
PatchedSwallow(current, ops) ==
    LET Checked(r) ==
            IF ~r.ok THEN Returned(Prepared(current))
            ELSE IF ~IsObj(r.val) THEN Raised("ValueError", "", 0)
            ELSE Returned(r.val)
    IN Checked(ApplyPatch(Prepared(current), ops))

\* variant: the result is not checked to be an object
PatchedUnchecked(current, ops) ==
    LET Checked(r) ==
            IF ~r.ok
            THEN IF r.exc \in JsonPatchExceptions
                 THEN Raised("ValueError", r.exc, r.at)
                 ELSE Raised(r.exc, "", r.at)
            ELSE Returned(r.val)
    IN Checked(ApplyPatch(Prepared(current), ops))

\* lines 101-107: the tree to persist, or the exception raised
Patched(current, ops) ==
    LET Checked(r) ==
            IF ~r.ok
            THEN IF r.exc \in JsonPatchExceptions
                 THEN Raised("ValueError", r.exc, r.at)
                 ELSE Raised(r.exc, "", r.at)
            ELSE IF ~IsObj(r.val) THEN Raised("ValueError", "", 0)
            ELSE Returned(r.val)
    IN Checked(ApplyPatch(Prepared(current), ops))

\* the trees callers store with set_content
SetTrees ==
    { EmptyObj,
      JObj("type" :> JStr("doc")),
      Node(JStr("doc"), JList(<<BareParagraph>>), Missing),
      Node(JStr("doc"),
           JList(<< Node(JStr("heading"), JList(<<>>), Missing),
                    Node(JStr("image"), JStr("x"), BareParagraph) >>),
           Missing),
      Node(JStr("image"), JList(<<JNull, BareParagraph>>), Missing) }

\* the operation lists callers patch with
PatchLists ==
    { <<>>,
      << Op("add", <<"type">>, JStr("doc")) >>,
      << Op("test", <<"type">>, JStr("wrong")) >>,
      << Op("replace", <<>>, JList(<<JStr("not"), JStr("an"), JStr("object")>>)) >>,
      << Op("add", <<"content", "0", "content", "0", "text">>, JStr("hi")) >>,
      << Op("add", <<"content", "-">>, BareParagraph) >>,
      << Op("add", <<"title">>, JStr("hi")), Op("test", <<"type">>, JStr("wrong")) >>,
      << Op("add", <<"title">>, JStr("yo")) >>,
      << Op("remove", <<"content", "1">>, JNull) >>,
      << Op("replace", <<"content", "0", "type">>, JStr("heading")),
         Op("remove", <<"type", "0">>, JNull) >>,
      << OpFrom("move", <<"content", "0">>, <<"content", "-">>) >>,
      << OpFrom("copy", <<"type">>, <<"content", "0", "kind">>) >>,
      << Op("merge", <<"type">>, JStr("doc")) >> }

----------------------------------------------------------------------------
(* AuthMiddleware (auth_middleware.py) and the request context
   (token_context.py).  A str is the sequence of its characters; an
   Optional[str] is PyNone or Str(s). *)

PyNone == [some |-> FALSE, s |-> <<>>]
Str(s) == [some |-> TRUE, s |-> s]

\* `not x` for an Optional[str]
Falsy(x) == ~x.some \/ x.s = <<>>

\* str.startswith, str.endswith, `sub in s`
StartsWith(s, pre) == Len(pre) <= Len(s) /\ SubSeq(s, 1, Len(pre)) = pre
EndsWith(s, suf) == Len(suf) <= Len(s) /\ SubSeq(s, Len(s) - Len(suf) + 1, Len(s)) = suf
IsSubstring(sub, s) ==
    \E i \in 0 .. (Len(s) - Len(sub)) : SubSeq(s, i + 1, i + Len(sub)) = sub

\* "/health", "/ready", "/docs", "/redoc", "/openapi.json"
PUBLIC_PATHS ==
    << <<"/", "h", "e", "a", "l", "t", "h">>,
       <<"/", "r", "e", "a", "d", "y">>,
       <<"/", "d", "o", "c", "s">>,
       <<"/", "r", "e", "d", "o", "c">>,
       <<"/", "o", "p", "e", "n", "a", "p", "i", ".", "j", "s", "o", "n">> >>

\* "/internal/"
INTERNAL_PATHS == << <<"/", "i", "n", "t", "e", "r", "n", "a", "l", "/">> >>

\* AuthMiddleware._is_public_path
IsPublicPath(path) ==
    \/ \E i \in DOMAIN INTERNAL_PATHS : IsSubstring(INTERNAL_PATHS[i], path)
    \/ \E i \in DOMAIN PUBLIC_PATHS :
          \/ path = PUBLIC_PATHS[i]
          \/ EndsWith(path, PUBLIC_PATHS[i])
          \/ EndsWith(path, PUBLIC_PATHS[i] \o <<"/">>)
          \/ StartsWith(path, PUBLIC_PATHS[i] \o <<"/">>)
          \/ StartsWith(path, PUBLIC_PATHS[i] \o <<"?">>)

\* "Bearer "
Bearer == <<"B", "e", "a", "r", "e", "r", " ">>

\* lines 98-101: auth_header[7:] after "Bearer ", else the header itself
AuthToken(auth_header) ==
    IF StartsWith(auth_header, Bearer)
    THEN SubSeq(auth_header, 8, Len(auth_header))
    ELSE auth_header

\* IntrospectResponse(active, visitor_id), or the exception introspect raised
Introspected(active, visitor_id) ==
    [asked |-> TRUE, raised |-> FALSE, active |-> active, visitor_id |-> visitor_id]
IntrospectRaised ==
    [asked |-> TRUE, raised |-> TRUE, active |-> FALSE, visitor_id |-> PyNone]
NotIntrospected ==
    [asked |-> FALSE, raised |-> FALSE, active |-> FALSE, visitor_id |-> PyNone]

\* variant: the active flag is not looked at
IntrospectOkAnyState(introspect) == ~Falsy(introspect.visitor_id)

\* line 119: introspect.active and introspect.visitor_id
IntrospectOk(introspect) == introspect.active /\ ~Falsy(introspect.visitor_id)

\* UserInfo(id=...), the value batch_get_user_info_by_id maps a user id to
UserInfo(id) == [some |-> TRUE, id |-> id]
NoUserInfo == [some |-> FALSE, id |-> <<>>]

\* Dict[str, UserInfo] (its keys), or the exception the lookup raised
LookedUp(ids) == [asked |-> TRUE, raised |-> FALSE, ids |-> ids]
LookupRaised == [asked |-> TRUE, raised |-> TRUE, ids |-> {}]
NotLookedUp == [asked |-> FALSE, raised |-> FALSE, ids |-> {}]

\* a request.state with nothing set on it
NewState == [auth_token |-> PyNone, user_id |-> PyNone, user_info |-> NoUserInfo]

\* no request dispatched yet
NoDispatch ==
    [path |-> <<>>, auth_header |-> PyNone, public |-> FALSE,
     introspect |-> NotIntrospected, user_infos |-> NotLookedUp,
     calls |-> 0, out |-> "none", entryToken |-> PyNone, entryUser |-> NoUserInfo]

InitAuth ==
    /\ authPc = "idle"
    /\ dispatch = NoDispatch
    /\ tokenContext = PyNone
    /\ userContext = NoUserInfo
    /\ requestState = NewState
    /\ nRequests = 0

Idle == [pc |-> "idle", id |-> 0, ops |-> <<>>, current |-> JNull, isoCurrent |-> JNull,
         new_content |-> JNull, isoNew |-> JNull, seen |-> NoRow,
         foreign |-> FALSE, lost |-> FALSE, otherOps |-> <<>>, otherRet |-> JNull]

NoOp == [op |-> "none", id |-> 0, task |-> "", arg |-> JNull, ops |-> <<>>,
         ret |-> Returned(JNull), isoRet |-> Returned(JNull),
         pre |-> [d \in DocIds |-> NoRow], read |-> JNull, seen |-> NoRow,
         sets |-> 0, foreign |-> FALSE, lost |-> FALSE,
         otherOps |-> <<>>, otherRet |-> JNull]

NoWrite == [op |-> "none", tree |-> JNull]

InitStore ==
    /\ store = [d \in DocIds |-> NoRow]
    /\ iso = [d \in DocIds |-> NoRow]
    /\ calls = [c \in Tasks |-> Idle]
    /\ last = NoOp
    /\ lastWrite = [d \in DocIds |-> NoWrite]
    /\ nCalls = 0

\* no heap run: the heap holds what the module holds
InitHeap ==
    /\ heap = ModuleHeap.h
    /\ hT = JNull
    /\ hRes = NotRun
    /\ hRes2 = NotRun
    /\ nMut = 0

Init ==
    /\ tree = JNull
    /\ norm1 = NotRun
    /\ norm2 = NotRun
    /\ InitStore
    /\ InitHeap
    /\ InitAuth

\* the calls in flight on d, other than c, learn that d was written
Disturbed(c, d, byPatch, ops, ret) ==
    [e \in Tasks |->
        IF e # c /\ calls[e].pc # "idle" /\ calls[e].id = d
        THEN [calls[e] EXCEPT !.foreign = TRUE,
                              !.lost = byPatch,
                              !.otherOps = ops,
                              !.otherRet = ret]
        ELSE calls[e]]

\* await get_content(document_id)
GetContentCall(d) ==
    /\ nCalls < MaxCalls
    /\ nCalls' = nCalls + 1
    /\ last' = [NoOp EXCEPT !.op = "get", !.id = d,
                            !.ret = Returned(GetContent(store[d])),
                            !.isoRet = Returned(GetContent(iso[d])),
                            !.pre = store, !.seen = store[d]]
    /\ UNCHANGED <<store, iso, calls, lastWrite>>
    /\ UNCHANGED normVars
    /\ UNCHANGED heapVars
    /\ UNCHANGED authVars

\* await set_content(document_id, content)
SetContentCall(d, content) ==
    /\ nCalls < MaxCalls
    /\ nCalls' = nCalls + 1
    /\ store' = Upsert(store, d, ContentJson(content))
    /\ iso' = [iso EXCEPT ![d] = Upsert(iso, d, ContentJson(content))[d]]
    /\ calls' = Disturbed("", d, FALSE, <<>>, JNull)
    /\ last' = [NoOp EXCEPT !.op = "set", !.id = d, !.arg = content,
                            !.pre = store, !.seen = store[d], !.sets = 1]
    /\ lastWrite' = [lastWrite EXCEPT ![d] = [op |-> "set", tree |-> content]]
    /\ UNCHANGED normVars
    /\ UNCHANGED heapVars
    /\ UNCHANGED authVars

\* await delete_content(document_id)
DeleteContentCall(d) ==
    /\ nCalls < MaxCalls
    /\ nCalls' = nCalls + 1
    /\ store' = DeleteRow(store, d)
    /\ iso' = [iso EXCEPT ![d] = DeleteRow(iso, d)[d]]
    /\ calls' = Disturbed("", d, FALSE, <<>>, JNull)
    /\ last' = [NoOp EXCEPT !.op = "delete", !.id = d,
                            !.pre = store, !.seen = store[d]]
    /\ lastWrite' = [lastWrite EXCEPT ![d] = [op |-> "delete", tree |-> JNull]]
    /\ UNCHANGED normVars
    /\ UNCHANGED heapVars
    /\ UNCHANGED authVars

\* the record of a patch_content call that has ended
PatchDone(c, call, ret, isoRet, sets) ==
    [NoOp EXCEPT !.op = "patch", !.id = call.id, !.task = c,
                 !.ops = call.ops, !.ret = ret, !.isoRet = isoRet,
                 !.pre = store, !.read = call.current, !.seen = call.seen,
                 !.sets = sets, !.foreign = call.foreign, !.lost = call.lost,
                 !.otherOps = call.otherOps, !.otherRet = call.otherRet]

\* patch_content, lines 99-107: current = await self.get_content(document_id),
\* then normalize, apply and check the result; the call either raises or goes
\* on to set_content
PatchApply(c, d, ops) ==
    /\ nCalls < MaxCalls
    /\ calls[c].pc = "idle"
    /\ nCalls' = nCalls + 1
    /\ LET Outcome(call, r, ir) ==
               IF r.ok
               THEN /\ calls' = [calls EXCEPT ![c] =
                                    [call EXCEPT !.pc = "set",
                                                 !.new_content = r.val,
                                                 !.isoNew = ir.val]]
                    /\ UNCHANGED last
               ELSE /\ UNCHANGED calls
                    /\ last' = PatchDone(c, call, r, ir, 0)
           Read(current, isoCurrent) ==
               Outcome([Idle EXCEPT !.id = d, !.ops = ops, !.current = current,
                                    !.isoCurrent = isoCurrent, !.seen = store[d]],
                       Patched(current, ops), Patched(isoCurrent, ops))
       IN Read(GetContent(store[d]), GetContent(iso[d]))
    /\ UNCHANGED <<store, iso, lastWrite>>
    /\ UNCHANGED normVars
    /\ UNCHANGED heapVars
    /\ UNCHANGED authVars

\* variant: the write re-reads the row and applies the operations to it
PatchSetRebased(c) ==
    /\ calls[c].pc = "set"
    /\ LET d == calls[c].id
           Fresh(r) == IF r.ok THEN r.val ELSE calls[c].new_content
           Write(new) ==
               /\ store' = Upsert(store, d, ContentJson(new))
               /\ iso' = [iso EXCEPT ![d] = Upsert(iso, d, ContentJson(new))[d]]
               /\ calls' = [Disturbed(c, d, TRUE, calls[c].ops, new) EXCEPT ![c] = Idle]
               /\ last' = PatchDone(c, calls[c], Returned(new), Returned(new), 1)
               /\ lastWrite' = [lastWrite EXCEPT ![d] = [op |-> "patch", tree |-> new]]
       IN Write(Fresh(Patched(GetContent(store[d]), calls[c].ops)))
    /\ UNCHANGED nCalls
    /\ UNCHANGED normVars
    /\ UNCHANGED heapVars
    /\ UNCHANGED authVars

\* variant: the tree that was read is written back, the new one returned
PatchSetCurrent(c) ==
    /\ calls[c].pc = "set"
    /\ LET d == calls[c].id
           ret == Returned(calls[c].new_content)
       IN /\ store' = Upsert(store, d, ContentJson(calls[c].current))
          /\ iso' = [iso EXCEPT ![d] = Upsert(iso, d, ContentJson(calls[c].isoCurrent))[d]]
          /\ calls' = [Disturbed(c, d, TRUE, calls[c].ops, calls[c].new_content)
                         EXCEPT ![c] = Idle]
          /\ last' = PatchDone(c, calls[c], ret, Returned(calls[c].isoNew), 1)
          /\ lastWrite' = [lastWrite EXCEPT ![d] =
                              [op |-> "patch", tree |-> calls[c].new_content]]
    /\ UNCHANGED nCalls
    /\ UNCHANGED normVars
    /\ UNCHANGED heapVars
    /\ UNCHANGED authVars

\* variant: the result is normalized before it is written and returned
PatchSetNormalized(c) ==
    /\ calls[c].pc = "set"
    /\ LET d == calls[c].id
           new == EnsureTiptapContent(calls[c].new_content)
           isoNew == EnsureTiptapContent(calls[c].isoNew)
       IN /\ store' = Upsert(store, d, ContentJson(new))
          /\ iso' = [iso EXCEPT ![d] = Upsert(iso, d, ContentJson(isoNew))[d]]
          /\ calls' = [Disturbed(c, d, TRUE, calls[c].ops, new) EXCEPT ![c] = Idle]
          /\ last' = PatchDone(c, calls[c], Returned(new), Returned(isoNew), 1)
          /\ lastWrite' = [lastWrite EXCEPT ![d] = [op |-> "patch", tree |-> new]]
    /\ UNCHANGED nCalls
    /\ UNCHANGED normVars
    /\ UNCHANGED heapVars
    /\ UNCHANGED authVars

\* patch_content, lines 108-109: await self.set_content(...); return new_content
PatchSet(c) ==
    /\ calls[c].pc = "set"
    /\ LET d == calls[c].id
           ret == Returned(calls[c].new_content)
       IN /\ store' = Upsert(store, d, ContentJson(calls[c].new_content))
          /\ iso' = [iso EXCEPT ![d] = Upsert(iso, d, ContentJson(calls[c].isoNew))[d]]
          /\ calls' = [Disturbed(c, d, TRUE, calls[c].ops, calls[c].new_content)
                         EXCEPT ![c] = Idle]
          /\ last' = PatchDone(c, calls[c], ret, Returned(calls[c].isoNew), 1)
          /\ lastWrite' = [lastWrite EXCEPT ![d] =
                              [op |-> "patch", tree |-> calls[c].new_content]]
    /\ UNCHANGED nCalls
    /\ UNCHANGED normVars
    /\ UNCHANGED heapVars
    /\ UNCHANGED authVars

Next ==
    \/ \E d \in DocIds : GetContentCall(d)
    \/ \E d \in DocIds : \E content \in SetTrees : SetContentCall(d, content)
    \/ \E d \in DocIds : DeleteContentCall(d)
    \/ \E c \in Tasks : \E d \in DocIds : \E ops \in PatchLists : PatchApply(c, d, ops)
    \/ \E c \in Tasks : PatchSet(c)

Spec == Init /\ [][Next]_vars

----------------------------------------------------------------------------
(* Positional patches: a tree is stored for document 1 and one task patches
   the text of the first child of its paragraph and heading nodes. *)

\* the reference token of a list index
IndexToken(n) == CHOOSE tok \in DOMAIN ArrayIndex : ArrayIndex[tok] = n

IsParagraphOrHeading(x) ==
    Has(x, "type") /\ x.v["type"] \in {JStr("paragraph"), JStr("heading")}

\* the pointers, from the root through content sequences, to the paragraph
\* and heading nodes of x
RECURSIVE InlinePaths(_)
InlinePaths(x) ==
    IF ~IsObj(x) THEN {}
    ELSE (IF IsParagraphOrHeading(x) THEN {<<>>} ELSE {})
         \cup (IF ~(Has(x, "content") /\ IsList(x.v["content"])) THEN {}
               ELSE UNION { { <<"content", IndexToken(i - 1)>> \o q :
                                q \in InlinePaths(x.v["content"].v[i]) } :
                            i \in DOMAIN x.v["content"].v })

\* those of them whose node has no content member
BarePaths(x) == { q \in InlinePaths(x) : ~Has(WalkAll(x, q).val, "content") }

\* the object trees stored: the innermost nodes and one level around them
StoredTrees ==
    { t \in Seeds : IsObj(t) }
    \cup { Node(ty, JList(kids), Missing) :
             ty \in {JStr("doc"), JStr("image")},
             kids \in UNION { WrapShapes(t) : t \in { u \in Seeds : IsObj(u) } } }

\* one add or replace at P/content/0/text, P a paragraph or heading of x
PositionalLists(x) ==
    { << Op(o, q \o <<"content", "0", "text">>, val) >> :
        o \in {"add", "replace"},
        q \in InlinePaths(x),
        val \in {JStr("hi"), JNull} }

PatchInit ==
    /\ tree = JNull
    /\ norm1 = NotRun
    /\ norm2 = NotRun
    /\ \E t \in StoredTrees :
          /\ store = [d \in DocIds |-> IF d = 1 THEN Row(ContentJson(t)) ELSE NoRow]
          /\ iso = [d \in DocIds |-> IF d = 1 THEN Row(ContentJson(t)) ELSE NoRow]
    /\ calls = [c \in Tasks |-> Idle]
    /\ last = NoOp
    /\ lastWrite = [d \in DocIds |-> NoWrite]
    /\ nCalls = 0
    /\ InitHeap
    /\ InitAuth

PatchNext ==
    \/ \E ops \in PositionalLists(GetContent(store[1])) : PatchApply("t1", 1, ops)
    \/ PatchSet("t1")

PatchSpec == PatchInit /\ [][PatchNext]_vars

----------------------------------------------------------------------------
(* Normalizer runs: an input tree is built, then normalized, then normalized
   again.  Trees are built from the innermost node outwards. *)

NormInit ==
    /\ tree \in Seeds
    /\ norm1 = NotRun
    /\ norm2 = NotRun
    /\ InitStore
    /\ InitHeap
    /\ InitAuth

Wrap ==
    /\ norm1 = NotRun
    /\ ContentDepth(tree) < MaxDepth
    /\ \E ty \in WrapTypes : \E kids \in WrapShapes(tree) :
          tree' = Node(ty, JList(kids), Missing)
    /\ UNCHANGED <<norm1, norm2>>
    /\ UNCHANGED storeVars
    /\ UNCHANGED heapVars
    /\ UNCHANGED authVars

Normalize ==
    /\ norm1 = NotRun
    /\ norm1' = EnsureTiptapContent(tree)
    /\ UNCHANGED <<tree, norm2>>
    /\ UNCHANGED storeVars
    /\ UNCHANGED heapVars
    /\ UNCHANGED authVars

NormalizeAgain ==
    /\ norm1 # NotRun
    /\ norm2 = NotRun
    /\ norm2' = EnsureTiptapContent(norm1)
    /\ UNCHANGED <<tree, norm1>>
    /\ UNCHANGED storeVars
    /\ UNCHANGED heapVars
    /\ UNCHANGED authVars

NormNext == Wrap \/ Normalize \/ NormalizeAgain

NormSpec == NormInit /\ [][NormNext]_vars

----------------------------------------------------------------------------
(* Heap runs: a tree t is built in the heap, _ensure_tiptap_content(t) is
   called, the caller mutates what it got, and the function is called on t
   again. *)

\* the trees given to the function
HeapTrees ==
    { JNull, JStr("x"), JList(<<BareParagraph>>), BareParagraph,
      JObj("type" :> JStr("doc")),
      Node(JStr("doc"), JList(<<BareParagraph, BareParagraph>>), Missing),
      Node(JStr("image"), JList(<<BareParagraph, JStr("x")>>), BareParagraph),
      Node(JStr("bulletList"),
           JList(<< JList(<<>>), Node(JStr("heading"), JList(<<>>), Missing) >>),
           Missing) }

HeapInit ==
    /\ tree \in HeapTrees
    /\ norm1 = NotRun
    /\ norm2 = NotRun
    /\ InitStore
    /\ heap = HStore(ModuleHeap.h, tree).h
    /\ hT = HStore(ModuleHeap.h, tree).val
    /\ hRes = NotRun
    /\ hRes2 = NotRun
    /\ nMut = 0
    /\ InitAuth

\* result = _ensure_tiptap_content(t)
HNormalize ==
    /\ hRes = NotRun
    /\ heap' = HEnsure(heap, hT).h
    /\ hRes' = HEnsure(heap, hT).val
    /\ UNCHANGED <<hT, hRes2, nMut>>
    /\ UNCHANGED normVars
    /\ UNCHANGED storeVars
    /\ UNCHANGED authVars

\* the caller mutates a dict of the result: d[key] = val, del d[key]
HMutateDict ==
    /\ hRes # NotRun
    /\ hRes2 = NotRun
    /\ nMut < MaxMutations
    /\ \E a \in HReach(heap, hRes) :
          /\ heap[a].k = "obj"
          /\ \/ \E key \in {"text", "content"} :
                   heap' = HSetKey(heap, a, key, JStr("hi"))
             \/ \E key \in DOMAIN heap[a].v :
                   heap' = [heap EXCEPT ![a] = Del(heap[a], key)]
    /\ nMut' = nMut + 1
    /\ UNCHANGED <<hT, hRes, hRes2>>
    /\ UNCHANGED normVars
    /\ UNCHANGED storeVars
    /\ UNCHANGED authVars

\* the caller mutates a list of the result: l.append(val), del l[0]
HMutateList ==
    /\ hRes # NotRun
    /\ hRes2 = NotRun
    /\ nMut < MaxMutations
    /\ \E a \in HReach(heap, hRes) :
          /\ heap[a].k = "list"
          /\ \/ heap' = [heap EXCEPT ![a] = JList(Append(heap[a].v, JStr("x")))]
             \/ /\ heap[a].v # <<>>
                /\ heap' = [heap EXCEPT ![a] = JList(Tail(heap[a].v))]
    /\ nMut' = nMut + 1
    /\ UNCHANGED <<hT, hRes, hRes2>>
    /\ UNCHANGED normVars
    /\ UNCHANGED storeVars
    /\ UNCHANGED authVars

\* a later _ensure_tiptap_content(t)
HNormalizeAgain ==
    /\ hRes # NotRun
    /\ hRes2 = NotRun
    /\ heap' = HEnsure(heap, hT).h
    /\ hRes2' = HEnsure(heap, hT).val
    /\ UNCHANGED <<hT, hRes, nMut>>
    /\ UNCHANGED normVars
    /\ UNCHANGED storeVars
    /\ UNCHANGED authVars

HeapNext == HNormalize \/ HMutateDict \/ HMutateList \/ HNormalizeAgain

HeapSpec == HeapInit /\ [][HeapNext]_vars

----------------------------------------------------------------------------
(* Requests through AuthMiddleware.dispatch, one after the other in one
   context.  A dispatch is cut at its awaits: introspect, the user lookup and
   call_next. *)

\* pieces the request paths are made of: "/api", "/projects", "/internal"
Api == <<"/", "a", "p", "i">>
Projects == <<"/", "p", "r", "o", "j", "e", "c", "t", "s">>
Internal == <<"/", "i", "n", "t", "e", "r", "n", "a", "l">>

PathHeads == { <<>>, Api }
PathMids == { PUBLIC_PATHS[i] : i \in DOMAIN PUBLIC_PATHS } \cup { Projects, Internal }
PathTails == { <<>>, <<"/">>, <<"?">>, <<"z">>, <<"/", "x">> }

\* request.url.path
RequestPaths == { a \o b \o c : a \in PathHeads, b \in PathMids, c \in PathTails }

\* request.headers.get("Authorization")
AuthHeaders ==
    { PyNone, Str(<<>>), Str(Bearer), Str(Bearer \o <<"a">>), Str(<<"a">>) }

U1 == <<"u", "1">>
U2 == <<"u", "2">>

\* what container.hydra_adapter.introspect gives
IntrospectOutcomes ==
    { IntrospectRaised }
    \cup { Introspected(a, v) : a \in BOOLEAN, v \in {PyNone, Str(<<>>), Str(U1)} }

\* what container.user_management_adapter.batch_get_user_info_by_id gives
LookupOutcomes == { LookupRaised } \cup { LookedUp(ids) : ids \in SUBSET {U1, U2} }

AuthInit ==
    /\ tree = JNull
    /\ norm1 = NotRun
    /\ norm2 = NotRun
    /\ InitStore
    /\ InitHeap
    /\ InitAuth

\* the dispatch ends: it returned error.to_response() (401), returned the
\* handler's response, or raised
Ended(d, out) == [d EXCEPT !.out = out]

\* dispatch, lines 79-112: up to call_next on a public path, to a refusal of
\* the header, or to the introspection
DispatchStart(path, auth_header) ==
    /\ authPc = "idle"
    /\ nRequests < MaxRequests
    /\ nRequests' = nRequests + 1
    /\ LET d == [NoDispatch EXCEPT !.path = path, !.auth_header = auth_header,
                                   !.public = IsPublicPath(path),
                                   !.out = "pending",
                                   !.entryToken = tokenContext,
                                   !.entryUser = userContext]
       IN IF IsPublicPath(path)
          THEN /\ authPc' = "call_next"
               /\ dispatch' = [d EXCEPT !.calls = 1]
               /\ requestState' = NewState
               /\ UNCHANGED <<tokenContext, userContext>>
          ELSE IF Falsy(auth_header) \/ AuthToken(auth_header.s) = <<>>
          THEN /\ authPc' = "idle"
               /\ dispatch' = Ended(d, "unauthorized")
               /\ requestState' = NewState
               /\ UNCHANGED <<tokenContext, userContext>>
          ELSE /\ authPc' = "introspect"
               /\ dispatch' = d
               /\ requestState' = [NewState EXCEPT !.auth_token = auth_header]
               /\ tokenContext' = Str(AuthToken(auth_header.s))
               /\ UNCHANGED userContext
    /\ UNCHANGED normVars
    /\ UNCHANGED storeVars
    /\ UNCHANGED heapVars

\* dispatch, lines 117-119 and 133-146: what introspect gave
IntrospectDone(introspect) ==
    /\ authPc = "introspect"
    /\ IF ~introspect.raised /\ IntrospectOk(introspect)
       THEN /\ authPc' = "lookup"
            /\ dispatch' = [dispatch EXCEPT !.introspect = introspect]
       ELSE /\ authPc' = "idle"
            /\ dispatch' = Ended([dispatch EXCEPT !.introspect = introspect],
                                 "unauthorized")
    /\ UNCHANGED <<tokenContext, userContext, requestState, nRequests>>
    /\ UNCHANGED normVars
    /\ UNCHANGED storeVars
    /\ UNCHANGED heapVars

\* dispatch, lines 120-132 and 140-150: what the lookup gave, up to call_next
LookupDone(user_infos) ==
    /\ authPc = "lookup"
    /\ IF ~user_infos.raised /\ dispatch.introspect.visitor_id.s \in user_infos.ids
       THEN /\ authPc' = "call_next"
            /\ dispatch' = [dispatch EXCEPT !.user_infos = user_infos, !.calls = 1]
            /\ userContext' = UserInfo(dispatch.introspect.visitor_id.s)
            /\ requestState' =
                  [requestState EXCEPT
                      !.user_id = Str(dispatch.introspect.visitor_id.s),
                      !.user_info = UserInfo(dispatch.introspect.visitor_id.s)]
       ELSE /\ authPc' = "idle"
            /\ dispatch' = Ended([dispatch EXCEPT !.user_infos = user_infos],
                                 "unauthorized")
            /\ UNCHANGED <<userContext, requestState>>
    /\ UNCHANGED <<tokenContext, nRequests>>
    /\ UNCHANGED normVars
    /\ UNCHANGED storeVars
    /\ UNCHANGED heapVars

\* dispatch, lines 82-87 and 152-157: call_next returned a response or
\* raised; the finally clause clears both context variables
CallNextDone(raised) ==
    /\ authPc = "call_next"
    /\ authPc' = "idle"
    /\ dispatch' = Ended(dispatch, IF raised THEN "raised" ELSE "response")
    /\ tokenContext' = PyNone
    /\ userContext' = NoUserInfo
    /\ UNCHANGED <<requestState, nRequests>>
    /\ UNCHANGED normVars
    /\ UNCHANGED storeVars
    /\ UNCHANGED heapVars

AuthNext ==
    \/ \E path \in RequestPaths : \E auth_header \in AuthHeaders :
          DispatchStart(path, auth_header)
    \/ \E introspect \in IntrospectOutcomes : IntrospectDone(introspect)
    \/ \E user_infos \in LookupOutcomes : LookupDone(user_infos)
    \/ \E raised \in BOOLEAN : CallNextDone(raised)

AuthSpec == AuthInit /\ [][AuthNext]_vars

----------------------------------------------------------------------------
(* Properties of the normalizer *)

Elems(x) == { x.v[i] : i \in DOMAIN x.v }

HasList(x) == Has(x, "content") /\ IsList(x.v["content"])

IsContainer(x) == Has(x, "type") /\ x.v["type"] \in TIPTAP_NODES_WITH_CONTENT
IsInline(x) == Has(x, "type") /\ x.v["type"] \in {JStr("paragraph"), JStr("heading")}

\* the nodes of a tree: the root object and every object reached through
\* content sequences
RECURSIVE Nodes(_)
Nodes(x) ==
    IF ~IsObj(x) THEN {}
    ELSE {x} \cup (IF HasList(x)
                   THEN UNION { Nodes(c) : c \in Elems(x.v["content"]) }
                   ELSE {})

\* the objects that are children of nodes whose type is not a container type
RECURSIVE UnderPlain(_)
UnderPlain(x) ==
    IF ~HasList(x) THEN {}
    ELSE LET kids == Elems(x.v["content"]) IN
         (IF IsContainer(x) THEN {} ELSE { c \in kids : IsObj(c) })
         \cup UNION { UnderPlain(c) : c \in kids }

\* <<a, b>>: node a of the input and the node b at the same position of the
\* result; a is Missing where the result's node has no counterpart
RECURSIVE Pairs(_, _)
Pairs(a, b) ==
    IF ~IsObj(b) THEN {}
    ELSE {<<a, b>>} \cup
         (IF ~HasList(b) THEN {}
          ELSE LET bk == b.v["content"].v IN
               UNION { Pairs(IF HasList(a) /\ i \in DOMAIN a.v["content"].v
                             THEN a.v["content"].v[i] ELSE Missing,
                             bk[i]) : i \in DOMAIN bk })

\* b is a with nothing removed, moved or changed: only content members added,
\* and only on container nodes that had none
RECURSIVE OnlyAdds(_, _)
OnlyAdds(a, b) ==
    IF ~IsObj(a) THEN b = a
    ELSE /\ IsObj(b)
         /\ DOMAIN a.v \subseteq DOMAIN b.v
         /\ (DOMAIN b.v \ DOMAIN a.v) \subseteq (IF IsContainer(a) THEN {"content"} ELSE {})
         /\ \A key \in DOMAIN a.v :
               IF key = "content" /\ IsList(a.v[key])
               THEN /\ IsList(b.v[key])
                    /\ Len(b.v[key].v) = Len(a.v[key].v)
                    /\ \A i \in DOMAIN a.v[key].v : OnlyAdds(a.v[key].v[i], b.v[key].v[i])
               ELSE b.v[key] = a.v[key]

\* C4: normalizing a normalized tree gives the same tree:
\* _ensure_tiptap_content(_ensure_tiptap_content(t)) = _ensure_tiptap_content(t).
C4_Idempotent == norm2 # NotRun => norm2 = norm1

\* a nested tree that normalization changed was normalized twice
C4_Witness ==
    /\ norm2 # NotRun
    /\ norm1 # tree
    /\ ContentDepth(tree) >= 2
    /\ \E n \in Nodes(tree) : IsInline(n) /\ ~Has(n, "content")

\* C5 as stated: in the result of every input tree, every node of container
\* type has a content member and that member is a sequence.
C5_AsStated ==
    norm1 # NotRun =>
        \A n \in Nodes(norm1) : IsContainer(n) => HasList(n)

\* C5 amended: every node of container type in the result has a content
\* member; it is a sequence unless the input's node at that position already
\* had a content member that is not a sequence, which is kept as it was.
C5_ContainerCompletion ==
    norm1 # NotRun =>
        \A p \in Pairs(tree, norm1) :
            IsContainer(p[2]) =>
                /\ Has(p[2], "content")
                /\ \/ IsList(p[2].v["content"])
                   \/ /\ Has(p[1], "content")
                      /\ ~IsList(p[1].v["content"])
                      /\ p[2].v["content"] = p[1].v["content"]

\* a nested container node that lacked content got a sequence
C5_Witness ==
    /\ norm1 # NotRun
    /\ \E p \in Pairs(tree, norm1) :
          /\ p[1] # tree
          /\ IsContainer(p[2])
          /\ IsObj(p[1]) /\ ~Has(p[1], "content")
          /\ HasList(p[2])

\* C6 as stated: a paragraph or heading with no content member, or an empty
\* one, gets exactly the default text leaf; any other container node that
\* lacked content gets the empty sequence.
C6_AsStated ==
    norm1 # NotRun =>
        \A p \in Pairs(tree, norm1) :
            /\ (/\ IsInline(p[1])
                /\ (~Has(p[1], "content") \/ p[1].v["content"] = JList(<<>>)))
               => (Has(p[2], "content") /\ p[2].v["content"] = INLINE_DEFAULT_CONTENT)
            /\ (IsContainer(p[1]) /\ ~IsInline(p[1]) /\ ~Has(p[1], "content"))
               => (Has(p[2], "content") /\ p[2].v["content"] = JList(<<>>))

\* C6 amended: a paragraph or heading with no content member gets exactly the
\* default text leaf, one whose content is present (the empty sequence
\* included) keeps what it had apart from its normalized children; any other
\* container node that lacked content gets the empty sequence.
C6_InlineDefault ==
    norm1 # NotRun =>
        \A p \in Pairs(tree, norm1) :
            /\ (IsInline(p[1]) /\ ~Has(p[1], "content"))
               => (Has(p[2], "content") /\ p[2].v["content"] = INLINE_DEFAULT_CONTENT)
            /\ (IsInline(p[1]) /\ Has(p[1], "content") /\ p[1].v["content"] = JList(<<>>))
               => (Has(p[2], "content") /\ p[2].v["content"] = JList(<<>>))
            /\ (IsContainer(p[1]) /\ ~IsInline(p[1]) /\ ~Has(p[1], "content"))
               => (Has(p[2], "content") /\ p[2].v["content"] = JList(<<>>))

\* one tree holds a nested paragraph or heading without content and a
\* container of another type without content
C6_Witness ==
    /\ norm1 # NotRun
    /\ \E p \in Pairs(tree, norm1) :
          /\ p[1] # tree
          /\ IsInline(p[1]) /\ ~Has(p[1], "content")
          /\ p[2].v["content"] = INLINE_DEFAULT_CONTENT
    /\ \E p \in Pairs(tree, norm1) :
          /\ IsContainer(p[1]) /\ ~IsInline(p[1]) /\ ~Has(p[1], "content")
          /\ p[2].v["content"] = JList(<<>>)

\* C7: the result is the input with content members added on container nodes
\* that had none and nothing else changed; nodes of other types gain no
\* member, and their children are normalized all the same.
C7_OnlyAdds ==
    norm1 # NotRun =>
        /\ OnlyAdds(tree, norm1)
        /\ \A n \in UnderPlain(norm1) : IsContainer(n) => Has(n, "content")

\* a node of unknown type with attrs kept its members while its paragraph
\* child gained content
C7_Witness ==
    /\ norm1 # NotRun
    /\ norm1 # tree
    /\ \E p \in Pairs(tree, norm1) :
          /\ IsObj(p[1]) /\ ~IsContainer(p[1]) /\ HasList(p[1])
          /\ \E i \in DOMAIN p[1].v["content"].v :
                /\ IsInline(p[1].v["content"].v[i])
                /\ ~Has(p[1].v["content"].v[i], "content")
                /\ Has(p[2].v["content"].v[i], "content")
    /\ \E n \in Nodes(tree) : Has(n, "attrs")

----------------------------------------------------------------------------
(* Properties of the adapter *)

\* the operation list of the last patch fails on the tree the call read
LastPatchFails == ~ApplyPatch(Prepared(last.read), last.ops).ok

\* C1: a patch_content call in whose list some operation fails raises, has
\* not invoked set_content, its last step leaves the whole table as it was,
\* and unless another call wrote the id meanwhile the row is the one it read.
C1_PatchAtomic ==
    (last.op = "patch" /\ LastPatchFails) =>
        /\ ~last.ret.ok
        /\ last.sets = 0
        /\ store = last.pre
        /\ (~last.foreign => store[last.id] = last.seen)

\* the second operation failed after the first had succeeded, on a stored tree
C1_Witness ==
    /\ last.op = "patch"
    /\ ~last.ret.ok
    /\ last.ret.at = 2
    /\ last.seen.row
    /\ Truthy(last.read)
    /\ store[last.id] = last.seen

\* C2: when a patch_content call writes after another patch_content call on
\* the same id wrote between its read and its write, both have returned, and
\* the stored tree is the operations of the later writer applied to the tree
\* it had read: nothing of the earlier writer's result is taken into it.
C2_LostUpdate ==
    (last.op = "patch" /\ last.ret.ok /\ last.lost) =>
        /\ IsObj(last.otherRet)
        /\ GetContent(store[last.id]) = last.ret.val
        /\ last.ret.val = ApplyPatch(Prepared(last.read), last.ops).val

\* both calls read the same tree, and the stored tree is neither the earlier
\* writer's result nor what the later writer's operations make of that result
C2_Witness ==
    /\ last.op = "patch" /\ last.ret.ok /\ last.lost
    /\ last.otherOps = << Op("add", <<"title">>, JStr("yo")) >>
    /\ last.ops = << Op("add", <<"content", "-">>, BareParagraph) >>
    /\ last.otherRet = ApplyPatch(Prepared(last.read), last.otherOps).val
    /\ GetContent(store[last.id]) # last.otherRet
    /\ GetContent(store[last.id]) # ApplyPatch(Prepared(last.otherRet), last.ops).val
    /\ ~Has(GetContent(store[last.id]), "title")

\* C3: the operation that completed last changed no row but its own id's, and
\* every row, every result and every tree read is what the operations on
\* that id alone produce.
C3_Isolation ==
    /\ \A d \in DocIds : (last.op # "none" /\ d # last.id) => store[d] = last.pre[d]
    /\ store = iso
    /\ last.ret = last.isoRet
    /\ \A c \in Tasks : /\ calls[c].current = calls[c].isoCurrent
                        /\ calls[c].new_content = calls[c].isoNew

\* a stored tree was deleted while the other id kept its own
C3_Witness ==
    /\ last.op = "delete"
    /\ last.pre[last.id].row
    /\ ~store[last.id].row
    /\ \E d \in DocIds \ {last.id} : store[d].row /\ Truthy(GetContent(store[d]))

\* C8: patch_content(id, []) returns the normalization of the tree
\* get_content gave it, whatever is stored: no row, {} or an object tree.
C8_EmptyPatch ==
    (last.op = "patch" /\ last.ops = <<>>) =>
        /\ last.ret.ok
        /\ last.ret.val = EnsureTiptapContent(last.read)

\* an empty patch returned a tree that normalization had to complete
C8_Witness ==
    /\ last.op = "patch" /\ last.ops = <<>> /\ last.ret.ok
    /\ last.seen.row
    /\ last.ret.val # last.read

\* C9: set_content succeeds with or without a row for the id, replaces the
\* row, and a get_content that follows it with no write to the id in between
\* returns a tree equal to the one given.
C9_Upsert ==
    /\ last.op = "set" =>
          /\ last.ret.ok
          /\ store[last.id].row
          /\ GetContent(store[last.id]) = last.arg
    /\ (last.op = "get" /\ lastWrite[last.id].op = "set") =>
          last.ret = Returned(lastWrite[last.id].tree)

\* a get_content read back a tree that had replaced another one
C9_Witness ==
    /\ last.op = "get"
    /\ lastWrite[last.id].op = "set"
    /\ Truthy(lastWrite[last.id].tree)
    /\ nCalls = 3
    /\ last.ret.val = lastWrite[last.id].tree

\* C10: get_content on an id without a row returns {} and creates no row;
\* get_content after delete_content returns {}; delete_content does not
\* raise, and on an id without a row it leaves the table unchanged.
C10_Absence ==
    /\ (last.op = "get" /\ ~last.pre[last.id].row) =>
          (last.ret = Returned(EmptyObj) /\ store = last.pre)
    /\ (last.op = "get" /\ lastWrite[last.id].op = "delete") =>
          last.ret = Returned(EmptyObj)
    /\ last.op = "delete" =>
          /\ last.ret.ok
          /\ ~store[last.id].row
          /\ (~last.pre[last.id].row => store = last.pre)

\* a get_content followed the delete_content of a stored tree
C10_Witness ==
    /\ last.op = "get"
    /\ lastWrite[last.id].op = "delete"
    /\ ~store[last.id].row
    /\ \E d \in DocIds : store[d].row
    /\ last.ret = Returned(EmptyObj)

\* the operation list of the last patch applies to the tree the call read and
\* yields a value that is not an object
LastPatchNotObject ==
    /\ ApplyPatch(Prepared(last.read), last.ops).ok
    /\ ~IsObj(ApplyPatch(Prepared(last.read), last.ops).val)

\* C11: a patch_content call whose list applies but yields a value that is not
\* an object raises the invalid-result ValueError (raised from no patch
\* exception), has not invoked set_content and leaves the table as it was; no
\* patch_content call, ended or in flight, writes a value that is not an object.
C11_ObjectRooted ==
    /\ (last.op = "patch" /\ LastPatchNotObject) =>
          /\ last.ret = Raised("ValueError", "", 0)
          /\ last.sets = 0
          /\ store = last.pre
          /\ (~last.foreign => store[last.id] = last.seen)
    /\ \A d \in DocIds : lastWrite[d].op = "patch" => IsObj(lastWrite[d].tree)
    /\ \A c \in Tasks : calls[c].pc = "set" => IsObj(calls[c].new_content)

\* a replace at the root by a list was refused on a stored tree, which is kept
C11_Witness ==
    /\ last.op = "patch"
    /\ LastPatchNotObject
    /\ last.ops[1].op = "replace" /\ last.ops[1].path = <<>>
    /\ last.seen.row
    /\ Truthy(last.read)
    /\ GetContent(store[last.id]) = last.read

\* C12 as stated: whatever condition makes the operation list fail
\* (non-existent path, missing member, index out of range, segment of the
\* wrong type, test mismatch), the caller of patch_content gets one and the
\* same typed failure: the ValueError of line 105, raised from the patch
\* exception.  (The claim's diagnostics, the failing operation's index and
\* path, are in no field of that ValueError: its message is the text of the
\* library's exception; ret.at is the model's own observation.)
C12_AsStated ==
    (last.op = "patch" /\ LastPatchFails) =>
        /\ last.ret.exc = "ValueError"
        /\ last.ret.cause \in JsonPatchExceptions

----------------------------------------------------------------------------
(* Properties of the normalizer on the heap *)

\* t and _INLINE_DEFAULT_CONTENT are the trees they were
HeapKept ==
    /\ HValue(heap, hT) = tree
    /\ HValue(heap, DefaultRef) = INLINE_DEFAULT_CONTENT

\* the result has no cell in common with t or _INLINE_DEFAULT_CONTENT
HeapApart ==
    HReach(heap, hRes) \cap (HReach(heap, hT) \cup HReach(heap, DefaultRef)) = {}

\* C13 as stated: for every t, the call leaves t as it was, its result shares
\* no cell with t nor with _INLINE_DEFAULT_CONTENT, and after any mutation of
\* the result t and _INLINE_DEFAULT_CONTENT are unchanged and a later
\* normalization of t gives what the first one gave.
C13_AsStated ==
    /\ HeapKept
    /\ hRes # NotRun => HeapApart
    /\ hRes2 # NotRun => HValue(heap, hRes2) = EnsureTiptapContent(tree)

\* C13 amended: the same for every t that is a dict; a t that is not a dict
\* (None, a str, a list) is returned itself, so that a list t and the result
\* are one list.
C13_NonMutation ==
    /\ IsObj(tree) =>
          /\ HeapKept
          /\ hRes # NotRun => HeapApart
          /\ hRes2 # NotRun => HValue(heap, hRes2) = EnsureTiptapContent(tree)
    /\ (~IsObj(tree) /\ hRes # NotRun) => hRes = hT
    /\ HValue(heap, DefaultRef) = INLINE_DEFAULT_CONTENT

\* the default leaf of one paragraph of the result was changed, the other
\* paragraph has the default leaf, and t was normalized again
C13_Witness ==
    /\ hRes2 # NotRun
    /\ nMut > 0
    /\ tree = Node(JStr("doc"), JList(<<BareParagraph, BareParagraph>>), Missing)
    /\ IsObj(HValue(heap, hRes))
    /\ HasList(HValue(heap, hRes))
    /\ Len(HValue(heap, hRes).v["content"].v) = 2
    /\ HValue(heap, hRes).v["content"].v[1] =
          Node(JStr("paragraph"),
               JList(<< JObj([key \in {"type", "text"} |->
                               IF key = "type" THEN JStr("text") ELSE JStr("hi")]) >>),
               Missing)
    /\ HValue(heap, hRes).v["content"].v[2] =
          Node(JStr("paragraph"), INLINE_DEFAULT_CONTENT, Missing)
    /\ HValue(heap, hRes2) = EnsureTiptapContent(tree)

----------------------------------------------------------------------------
(* Properties of AuthMiddleware *)

\* the request carries a token, its introspection is active with a visitor
\* id, and the lookup returned that visitor's user info
Authenticated(d) ==
    /\ d.auth_header.some
    /\ d.auth_header.s \notin {<<>>, Bearer}
    /\ d.introspect.asked /\ ~d.introspect.raised
    /\ d.introspect.active
    /\ d.introspect.visitor_id.some /\ d.introspect.visitor_id.s # <<>>
    /\ d.user_infos.asked /\ ~d.user_infos.raised
    /\ d.introspect.visitor_id.s \in d.user_infos.ids

\* C14: for a request whose path _is_public_path refuses, call_next is invoked
\* (once) only if the Authorization header is present, the token left after an
\* optional "Bearer " is not empty, introspection is active with a visitor id
\* and the lookup returned that visitor's user info; a dispatch that ended
\* otherwise, exceptions of introspection or lookup included, returned the
\* unauthorized response without invoking call_next.
C14_AuthGate ==
    (dispatch.out # "none" /\ ~dispatch.public) =>
        /\ dispatch.calls <= 1
        /\ dispatch.calls = 1 => Authenticated(dispatch)
        /\ (authPc = "idle" /\ ~Authenticated(dispatch)) =>
              (dispatch.out = "unauthorized" /\ dispatch.calls = 0)
        /\ (authPc = "idle" /\ Authenticated(dispatch)) =>
              (dispatch.out \in {"response", "raised"} /\ dispatch.calls = 1)

\* a request with a bearer token went through introspection and lookup to the
\* handler, after a request that had been refused past its header
C14_Witness ==
    /\ nRequests = 2
    /\ authPc = "idle"
    /\ ~dispatch.public
    /\ dispatch.auth_header = Str(Bearer \o <<"a">>)
    /\ dispatch.calls = 1
    /\ dispatch.out = "response"
    /\ requestState.user_id = Str(U1)
    /\ dispatch.entryToken # PyNone

\* C17 as stated: _is_public_path(path) is True only when path equals or
\* starts with one of PUBLIC_PATHS or starts with "/internal/"; a path that
\* only contains "/internal/" further on, or only ends with "/docs", is not
\* public.
C17_AsStated ==
    (dispatch.out # "none" /\ dispatch.public) =>
        \/ \E i \in DOMAIN PUBLIC_PATHS : StartsWith(dispatch.path, PUBLIC_PATHS[i])
        \/ \E i \in DOMAIN INTERNAL_PATHS : StartsWith(dispatch.path, INTERNAL_PATHS[i])

\* C18 as stated: whenever a dispatch has returned or raised, on whatever path
\* it took, TokenContext.get_token() and UserContext.get_user_info() are None
\* in the context it ran in.
C18_AsStated ==
    (authPc = "idle" /\ dispatch.out # "none") =>
        /\ tokenContext = PyNone
        /\ userContext = NoUserInfo

\* the last patch is one add or replace of the text of the first child of a
\* paragraph or heading that is stored without content
LastPatchPositional ==
    /\ last.op = "patch"
    /\ Len(last.ops) = 1
    /\ last.ops[1].op \in {"add", "replace"}
    /\ \E q \in BarePaths(last.read) :
          last.ops[1].path = q \o <<"content", "0", "text">>

\* {"type": "text", "text": value}
TextLeaf(value) ==
    JObj([key \in {"type", "text"} |-> IF key = "type" THEN JStr("text") ELSE value])

\* C15: for a stored object tree with a paragraph or heading without content
\* at P (reached through content sequences), the single add or replace at
\* P/content/0/text fails on the stored tree as it is and succeeds through
\* patch_content; the result is the normalized stored tree with that node's
\* content being [{"type": "text", "text": value}].
C15_PositionalPath ==
    LastPatchPositional =>
        /\ ~ApplyPatch(last.read, last.ops).ok
        /\ last.ret.ok
        /\ last.ret.val =
              SetAt(EnsureTiptapContent(last.read),
                    Front(Front(last.ops[1].path)),
                    JList(<<TextLeaf(last.ops[1].value)>>))

\* the text of a bare paragraph that is a second child was replaced, in a
\* tree that had another bare paragraph to be completed
C15_Witness ==
    /\ LastPatchPositional
    /\ last.ops[1].op = "replace"
    /\ last.ops[1].path = <<"content", "1", "content", "0", "text">>
    /\ last.ret.ok
    /\ last.read.v["content"].v[1] = BareParagraph
    /\ last.ret.val.v["content"].v[1] =
          Node(JStr("paragraph"), INLINE_DEFAULT_CONTENT, Missing)
    /\ GetContent(store[last.id]) = last.ret.val

\* C16: a patch_content call that succeeds has invoked set_content once,
\* after the operations were applied and the result found to be an object,
\* with the whole result; the row then holds the tree it returns, and a
\* get_content that follows with no write to the id in between returns that
\* tree; with no row for the id the operations are applied to {} and the row
\* is created ([add /type "doc"] gives and stores {"type": "doc"}).
C16_CommitsReturned ==
    /\ (last.op = "patch" /\ last.ret.ok) =>
          /\ last.sets = 1
          /\ IsObj(last.ret.val)
          /\ store[last.id].row
          /\ GetContent(store[last.id]) = last.ret.val
          /\ ~last.seen.row => last.ret.val = ApplyPatch(EmptyObj, last.ops).val
          /\ (~last.seen.row /\ last.ops = << Op("add", <<"type">>, JStr("doc")) >>)
                => last.ret.val = JObj("type" :> JStr("doc"))
    /\ (last.op = "patch" /\ ~last.ret.ok) => last.sets = 0
    /\ \A c \in Tasks :
          calls[c].pc = "set" =>
              Patched(calls[c].current, calls[c].ops) = Returned(calls[c].new_content)
    /\ (last.op = "get" /\ lastWrite[last.id].op = "patch") =>
          last.ret = Returned(lastWrite[last.id].tree)

\* a get_content read back the {"type": "doc"} that a patch had created on an
\* id without a row
C16_Witness ==
    /\ last.op = "get"
    /\ lastWrite[last.id].op = "patch"
    /\ last.ret.val = JObj("type" :> JStr("doc"))
    /\ nCalls = 2
    /\ \A d \in DocIds \ {last.id} : ~store[d].row

\* C19: after a successful patch_content on a stored tree S that is not
\* empty, the row holds the operations applied to _ensure_tiptap_content(S),
\* not to S: with an empty list the row becomes the normalized tree, and the
\* result is stored as the operations left it, a container node they added
\* without content staying without it.
C19_PersistsPatchedNormalization ==
    (last.op = "patch" /\ last.ret.ok /\ Truthy(last.read)) =>
        /\ GetContent(store[last.id]) =
              ApplyPatch(EnsureTiptapContent(last.read), last.ops).val
        /\ last.ops = <<>> =>
              GetContent(store[last.id]) = EnsureTiptapContent(last.read)
        /\ last.ops = << Op("add", <<"content", "-">>, BareParagraph) >> =>
              LET kids == GetContent(store[last.id]).v["content"].v
              IN kids[Len(kids)] = BareParagraph

\* a stored tree with a bare paragraph got another bare paragraph appended:
\* the row holds the first completed and the second as it was given, which is
\* neither the patch of the raw tree nor a normalized tree
C19_Witness ==
    /\ last.op = "patch" /\ last.ret.ok
    /\ last.read = Node(JStr("doc"), JList(<<BareParagraph>>), Missing)
    /\ last.ops = << Op("add", <<"content", "-">>, BareParagraph) >>
    /\ GetContent(store[last.id]) =
          Node(JStr("doc"),
               JList(<< Node(JStr("paragraph"), INLINE_DEFAULT_CONTENT, Missing),
                        BareParagraph >>),
               Missing)
    /\ GetContent(store[last.id]) # ApplyPatch(last.read, last.ops).val
    /\ GetContent(store[last.id]) # EnsureTiptapContent(GetContent(store[last.id]))

====
